---- MODULE Spec2Model ----
(***************************************************************************)
(* A model of GTpo/src/gtpoUtils.h (QuickQanava).                          *)
(*   SpecWeak       owners and weak references come and go, and are given  *)
(*                  to std::hash, std::equal_to and compare_weak_ptr       *)
(*   SpecEq         the two equalities over any three live weak references *)
(*   SpecAssert     assert_throw and bad_topology_error                    *)
(*   SpecContainer  the insert / remove points of ContainerConfig,         *)
(*                  specialised for a sequence                             *)
(***************************************************************************)
EXTENDS Integers, Sequences, FiniteSets, TLC

\* ---------------------------------------------------------------- bounds
NumCtrl == 2   \* heap addresses 1..NumCtrl for std::make_shared's blocks
MaxUse  == 2   \* owners (std::shared_ptr) one entity has at a time

VARIABLES
    ctrl,   \* the heap: address -> [ent, val, use, weak], a make_shared block
    wp,     \* the caller's weak_ptr variables: name -> [cb, ptr]
    went,   \* history: the entity each weak_ptr variable was taken from
    ret,    \* the last operation on the handles and what it returned
    call,   \* the last call of assert_throw: its arguments
    exc,    \* the exception on its way to the caller, or NoError
    nerr,   \* the number of error values constructed so far
    cont,   \* the caller's containers: name -> sequence
    last    \* the last container operation

weakVars   == <<ctrl, wp, went, ret>>
assertVars == <<call, exc, nerr>>
contVars   == <<cont, last>>

vars == <<ctrl, wp, went, ret, call, exc, nerr, cont, last>>

CtrlAddr == 1..NumCtrl
\* pointer values: 0 is nullptr, b the pointee of the block at b
PtrVal   == 0..NumCtrl
\* the weak_ptr variables of a run: the a and b the claims speak of
WeakSlot == {"a", "b"}
\* the three weak_ptr variables of the claims about a, b and c
TripleSlot == {"a", "b", "c"}
\* where each weak_ptr variable lives
AddrOf(key) == CASE key = "a" -> 1 [] key = "b" -> 2 [] key = "c" -> 3
\* names for the entities (history only): enough for every block and variable
EntityId == 1..(NumCtrl + Cardinality(TripleSlot))

\* no control block at all: a default-constructed handle
NullHandle == [cb |-> 0, ptr |-> 0]
\* a heap address nobody uses
FreeBlock  == [ent |-> 0, val |-> FALSE, use |-> 0, weak |-> 0]
NoRet      == [op |-> "none", arg |-> "", after |-> "", hash |-> 0, eq |-> FALSE]

\* no exception in flight
NoError == [kind |-> "none", what_arg |-> <<>>]
\* assert_throw has not been called, or the caller has handled its error
NoCall  == [form |-> "none", E |-> "", expr |-> TRUE, message |-> <<>>]
\* no container operation yet
NoOp    == [op |-> "none", which |-> "", v |-> 0, found |-> FALSE]
\* the containers a run of the handles or of assert_throw never touches
Container == {"c", "other"}

AssertIdle == call = NoCall /\ exc = NoError /\ nerr = 0
ContIdle   == cont = [w \in Container |-> <<>>] /\ last = NoOp

\* ------------------------------------------------ <memory> as the code uses it
\* weak_ptr::owner_before: the order of the control-block addresses
owner_before(l, r) == l.cb < r.cb

use_count(c, h) == IF h.cb = 0 THEN 0 ELSE c[h.cb].use

expired(c, h) == use_count(c, h) = 0

\* weak_ptr::lock(): the strong handle, or the empty one once expired
lock(c, w) == IF expired(c, w) THEN NullHandle ELSE [cb |-> w.cb, ptr |-> w.ptr]

\* a strong handle comes to life (copy, lock, aliasing constructor)
Acquire(c, b) == IF b = 0 THEN c ELSE [c EXCEPT ![b].use = @ + 1]

\* a strong handle dies: the last one destroys the pointee, and the block is
\* freed when no weak handle is left
Release(c, b) ==
    IF b = 0 THEN c
    ELSE IF c[b].use > 1 THEN [c EXCEPT ![b].use = @ - 1]
    ELSE IF c[b].weak = 0 THEN [c EXCEPT ![b] = FreeBlock]
    ELSE [c EXCEPT ![b].use = 0, ![b].val = FALSE]

\* a weak handle comes to life
AcquireWeak(c, b) == IF b = 0 THEN c ELSE [c EXCEPT ![b].weak = @ + 1]

\* a weak handle dies
ReleaseWeak(c, b) ==
    IF b = 0 THEN c
    ELSE IF c[b].weak = 1 /\ c[b].use = 0 THEN [c EXCEPT ![b] = FreeBlock]
    ELSE [c EXCEPT ![b].weak = @ - 1]

\* std::hash<T*>: the pointer's value as a std::size_t
hash_ptr(p) == p

\* std::hash<std::shared_ptr<T>>: the hash of get()
hash_shared_ptr(s) == hash_ptr(s.ptr)

\* ------------------------------------------------------------ gtpoUtils.h
\* a hash of the weak_ptr object itself, not of what it refers to
hash_by_address(key) == AddrOf(key)

\* a hash of the stored pointer, read without resolving the weak reference
hash_stored(key) == hash_ptr(wp[key].ptr)

\* std::hash<std::weak_ptr<T>>::operator()( key ): key is a reference
hash_weak_ptr(key) == hash_shared_ptr(lock(ctrl, wp[key]))

\* the heap when the strong reference of key.lock() is kept
hash_effect_leak(key) == Acquire(ctrl, lock(ctrl, wp[key]).cb)

\* the heap after operator(): the temporary of key.lock() is created, and
\* destroyed at the end of the full expression
hash_effect(key) ==
    LET tmp == lock(ctrl, wp[key])
    IN  Release(Acquire(ctrl, tmp.cb), tmp.cb)

\* equality of the resolved pointers, left.lock() == right.lock()
equal_by_pointer(left, right) ==
    lock(ctrl, wp[left]).ptr = lock(ctrl, wp[right]).ptr

\* std::equal_to<std::weak_ptr<T>>::operator()( left, right )
equal_to(left, right) ==
    ~owner_before(wp[left], wp[right]) /\ ~owner_before(wp[right], wp[left])

\* owner_before asked in one direction only
compare_one_way(left, right) == ~owner_before(wp[left], wp[right])

\* gtpo::compare_weak_ptr( left, right )
compare_weak_ptr(left, right) ==
    ~owner_before(wp[left], wp[right]) /\ ~owner_before(wp[right], wp[left])

\* ---------------------------------------------------------------- SpecWeak
FreeCtrl == {b \in CtrlAddr : ctrl[b].use = 0 /\ ctrl[b].weak = 0}
LiveCtrl == {b \in CtrlAddr : ctrl[b].use > 0}
\* the first name no block and no weak_ptr variable carries
FreshEntity ==
    CHOOSE e \in EntityId :
        /\ \A b \in CtrlAddr : ctrl[b].ent # e
        /\ \A k \in DOMAIN wp : went[k] # e
        /\ \A f \in 1..(e - 1) :
              (\E b \in CtrlAddr : ctrl[b].ent = f) \/ (\E k \in DOMAIN wp : went[k] = f)

InitWeak ==
    /\ ctrl = [b \in CtrlAddr |-> FreeBlock]
    /\ wp = [k \in WeakSlot |-> NullHandle]
    /\ went = [k \in WeakSlot |-> 0]
    /\ ret = NoRet
    /\ AssertIdle /\ ContIdle

\* auto s = std::make_shared<T>( v ): a new entity and its first owner; a run
\* value-initialises every pointee, std::make_shared<T>()
MakeShared(b, v) ==
    /\ b \in FreeCtrl
    /\ ctrl' = [ctrl EXCEPT ![b] = [ent |-> FreshEntity, val |-> v, use |-> 1, weak |-> 0]]
    /\ UNCHANGED <<assertVars, contVars>>
    /\ ret' = NoRet
    /\ UNCHANGED <<wp, went>>

\* std::shared_ptr<T> t( s ), or t( s, p ): one more owner of s's entity
CopyShared(b) ==
    /\ b \in LiveCtrl /\ ctrl[b].use < MaxUse
    /\ ctrl' = Acquire(ctrl, b)
    /\ UNCHANGED <<assertVars, contVars>>
    /\ ret' = NoRet
    /\ UNCHANGED <<wp, went>>

\* s.reset(): an owner lets go
ResetShared(b) ==
    /\ b \in LiveCtrl
    /\ ctrl' = Release(ctrl, b)
    /\ UNCHANGED <<assertVars, contVars>>
    /\ ret' = NoRet
    /\ UNCHANGED <<wp, went>>

\* std::weak_ptr<T> k( s ): s an owner made by make_shared or a copy of it
TakeWeak(b, k) ==
    /\ b \in LiveCtrl /\ wp[k] = NullHandle
    /\ wp' = [wp EXCEPT ![k] = [cb |-> b, ptr |-> b]]
    /\ went' = [went EXCEPT ![k] = ctrl[b].ent]
    /\ ctrl' = AcquireWeak(ctrl, b)
    /\ UNCHANGED <<assertVars, contVars>>
    /\ ret' = [NoRet EXCEPT !.op = "TakeWeak", !.arg = k,
                            !.after = IF ret.op = "lock" THEN ret.arg ELSE ""]

\* std::weak_ptr<T> k( std::shared_ptr<T>( s, p ) ): taken from an owner made
\* by the aliasing constructor, which stores p
TakeWeakAlias(b, p, k) ==
    /\ b \in LiveCtrl /\ wp[k] = NullHandle
    /\ wp' = [wp EXCEPT ![k] = [cb |-> b, ptr |-> p]]
    /\ went' = [went EXCEPT ![k] = ctrl[b].ent]
    /\ ctrl' = AcquireWeak(ctrl, b)
    /\ UNCHANGED <<assertVars, contVars>>
    /\ ret' = NoRet

\* std::weak_ptr<T> m( k )
CopyWeak(k, m) ==
    /\ wp[k] # NullHandle /\ wp[m] = NullHandle
    /\ wp' = [wp EXCEPT ![m] = wp[k]]
    /\ went' = [went EXCEPT ![m] = went[k]]
    /\ ctrl' = AcquireWeak(ctrl, wp[k].cb)
    /\ UNCHANGED <<assertVars, contVars>>
    /\ ret' = NoRet

\* k.reset()
ResetWeak(k) ==
    /\ wp[k] # NullHandle
    /\ wp' = [wp EXCEPT ![k] = NullHandle]
    /\ went' = [went EXCEPT ![k] = 0]
    /\ ctrl' = ReleaseWeak(ctrl, wp[k].cb)
    /\ UNCHANGED <<assertVars, contVars>>
    /\ ret' = NoRet

\* auto s = k.lock(), kept: one more owner unless k has expired
LockWeak(k) ==
    /\ wp[k] # NullHandle
    /\ use_count(ctrl, wp[k]) < MaxUse
    /\ ctrl' = Acquire(ctrl, lock(ctrl, wp[k]).cb)
    /\ UNCHANGED <<assertVars, contVars>>
    /\ ret' = [NoRet EXCEPT !.op = "lock", !.arg = k]
    /\ UNCHANGED <<wp, went>>

\* std::hash<std::weak_ptr<T>>()( k )
HashCall(k) ==
    /\ UNCHANGED <<assertVars, contVars>>
    /\ ret' = [NoRet EXCEPT !.op = "hash", !.hash = hash_weak_ptr(k)]
    /\ ctrl' = hash_effect(k)
    /\ UNCHANGED <<wp, went>>

\* std::equal_to<std::weak_ptr<T>>()( a, b )
EqualToCall(a, b) ==
    /\ UNCHANGED <<assertVars, contVars>>
    /\ ret' = [NoRet EXCEPT !.op = "equal_to", !.eq = equal_to(a, b)]
    /\ UNCHANGED <<ctrl, wp, went>>

\* gtpo::compare_weak_ptr( a, b )
CompareCall(a, b) ==
    /\ UNCHANGED <<assertVars, contVars>>
    /\ ret' = [NoRet EXCEPT !.op = "compare_weak_ptr", !.eq = compare_weak_ptr(a, b)]
    /\ UNCHANGED <<ctrl, wp, went>>

NextWeak ==
    \/ \E b \in CtrlAddr : MakeShared(b, FALSE)
    \/ \E b \in CtrlAddr : CopyShared(b)
    \/ \E b \in CtrlAddr : ResetShared(b)
    \/ \E b \in CtrlAddr, k \in DOMAIN wp : TakeWeak(b, k)
    \/ \E b \in CtrlAddr, p \in PtrVal, k \in DOMAIN wp : TakeWeakAlias(b, p, k)
    \/ \E k, m \in DOMAIN wp : CopyWeak(k, m)
    \/ \E k \in DOMAIN wp : ResetWeak(k)
    \/ \E k \in DOMAIN wp : LockWeak(k)
    \/ \E k \in DOMAIN wp : HashCall(k)
    \/ \E a, b \in DOMAIN wp : EqualToCall(a, b)
    \/ \E a, b \in DOMAIN wp : CompareCall(a, b)

SpecWeak == InitWeak /\ [][NextWeak]_vars

\* ------------------------------------------------------------------ SpecEq
\* Three live weak references a, b, c, each taken from an owner of one of the
\* entities (through the aliasing constructor when ptr is not the pointee);
\* every entity has one owner and a value of its own.
InitEq ==
    /\ \E ents \in Permutations(CtrlAddr), vals \in [CtrlAddr -> BOOLEAN],
          h \in [TripleSlot -> [cb : CtrlAddr, ptr : PtrVal]] :
          /\ ctrl = [b \in CtrlAddr |->
                       [ent |-> ents[b], val |-> vals[b], use |-> 1,
                        weak |-> Cardinality({k \in TripleSlot : h[k].cb = b})]]
          /\ wp = h
          /\ went = [k \in TripleSlot |-> ents[h[k].cb]]
    /\ ret = NoRet
    /\ AssertIdle /\ ContIdle

NextEq ==
    \/ \E a, b \in DOMAIN wp : EqualToCall(a, b)
    \/ \E a, b \in DOMAIN wp : CompareCall(a, b)

SpecEq == InitEq /\ [][NextEq]_vars

\* ------------------------------------------------- claims on weak references
Live(k) == ~expired(ctrl, wp[k])

\* the stored pointer is the pointee make_shared created: k was taken from an
\* owner of the entity, not from an aliasing handle
TakenFromOwner(k) == wp[k].ptr = wp[k].cb

\* C1: any two non-expired weak references that std::equal_to finds equal have
\* the same std::hash, whatever owning handle each was taken from.
C1_HashConsistentWithEqual ==
    \A a, b \in DOMAIN wp :
        (Live(a) /\ Live(b) /\ equal_to(a, b)) => hash_weak_ptr(a) = hash_weak_ptr(b)

\* C2: for non-expired weak references, equal_to and compare_weak_ptr are true
\* exactly when both refer to the same entity, whatever pointer they store and
\* whatever value the pointee has.
C2_OwnershipIdentity ==
    LET L == {k \in DOMAIN wp : Live(k)}
    IN  \A a, b \in L :
            /\ equal_to(a, b) <=> went[a] = went[b]
            /\ compare_weak_ptr(a, b) <=> went[a] = went[b]

\* b and c store one address and their entities hold equal values, yet they
\* compare unequal; a and b store different addresses, yet they compare equal
C2_Witness ==
    /\ ret.op = "compare_weak_ptr" /\ ~ret.eq
    /\ \E a, b, c \in DOMAIN wp :
          /\ Live(a) /\ Live(b) /\ Live(c)
          /\ went[a] = went[b] /\ wp[a].ptr # wp[b].ptr /\ compare_weak_ptr(a, b)
          /\ went[b] # went[c] /\ wp[b].ptr = wp[c].ptr
          /\ ctrl[wp[b].cb].val = ctrl[wp[c].cb].val
          /\ ~compare_weak_ptr(b, c)

\* C3: over non-expired weak references, each of the two equalities is
\* reflexive, symmetric and transitive.
C3_Equivalence ==
    LET L == {k \in DOMAIN wp : Live(k)}
    IN  /\ \A a \in L : equal_to(a, a) /\ compare_weak_ptr(a, a)
        /\ \A a, b \in L :
              /\ equal_to(a, b) = equal_to(b, a)
              /\ compare_weak_ptr(a, b) = compare_weak_ptr(b, a)
        /\ \A a, b \in L :
              equal_to(a, b) => \A c \in L : equal_to(b, c) => equal_to(a, c)
        /\ \A a, b \in L :
              compare_weak_ptr(a, b) =>
                  \A c \in L : compare_weak_ptr(b, c) => compare_weak_ptr(a, c)

\* three different handles of one entity, and a fourth comparison made
C3_Witness ==
    /\ ret.op = "equal_to" /\ ret.eq
    /\ \E a, b, c \in DOMAIN wp :
          /\ Live(a) /\ Live(b) /\ Live(c)
          /\ wp[a] # wp[b] /\ wp[b] # wp[c] /\ wp[a] # wp[c]
          /\ equal_to(a, b) /\ equal_to(b, c) /\ equal_to(a, c)

\* C4: a weak reference w taken from an owner of a live entity and resolved
\* with lock(), and a weak reference w2 taken from the owner afterwards, are
\* equal and have the same hash.
C4_RoundTrip ==
    (ret.op = "TakeWeak" /\ ret.after # "") =>
        LET w  == ret.after
            w2 == ret.arg
        IN  (Live(w) /\ went[w] = went[w2] /\ TakenFromOwner(w)) =>
                /\ equal_to(w, w2) /\ compare_weak_ptr(w, w2)
                /\ hash_weak_ptr(w) = hash_weak_ptr(w2)

\* w2 has just been taken, w was resolved right before and the owner lock()
\* returned is still held
C4_Witness ==
    /\ ret.op = "TakeWeak" /\ ret.after # ""
    /\ Live(ret.after) /\ TakenFromOwner(ret.after)
    /\ went[ret.after] = went[ret.arg]
    /\ use_count(ctrl, wp[ret.after]) = 2

\* C9: a call of std::hash, std::equal_to or compare_weak_ptr leaves every
\* entity's number of owners, its live or expired status and every weak
\* reference as they were.
C9_NoLifetimeExtension ==
    [][ret'.op \in {"hash", "equal_to", "compare_weak_ptr"} =>
          (ctrl' = ctrl /\ wp' = wp)]_vars

\* a hash has been taken of a live weak reference whose entity has one owner
C9_Witness ==
    /\ ret.op = "hash"
    /\ \E k \in DOMAIN wp :
          Live(k) /\ use_count(ctrl, wp[k]) = 1 /\ ret.hash = hash_weak_ptr(k)

\* C10: an expired or empty weak reference hashes as the empty shared_ptr
\* does, and both equalities keep telling, live or expired, whether two weak
\* references were taken from the same entity.
C10_ExpiredHashAndEquality ==
    /\ \A k \in DOMAIN wp :
          ~Live(k) => hash_weak_ptr(k) = hash_shared_ptr(NullHandle)
    /\ \A k, m \in DOMAIN wp :
          /\ equal_to(k, m) <=> went[k] = went[m]
          /\ compare_weak_ptr(k, m) <=> went[k] = went[m]

\* two weak references whose entities, different ones, have both been released
C10_Witness ==
    /\ ret.op = "hash" /\ ret.hash = hash_shared_ptr(NullHandle)
    /\ \E k, m \in DOMAIN wp :
          /\ wp[k] # NullHandle /\ wp[m] # NullHandle
          /\ ~Live(k) /\ ~Live(m)
          /\ went[k] # went[m]

\* -------------------------------------------------------------- SpecAssert
MaxMsgLen == 2   \* longest message drawn, the default text apart
MaxErrors == 2   \* error values constructed over a run

\* characters are their codes; 0 is the terminating NUL of a C string
Alphabet == {0, 109, 115}

\* "GTpo topology unrecoverable error."
DefaultMessage ==
    <<71, 84, 112, 111, 32, 116, 111, 112, 111, 108, 111, 103, 121, 32,
      117, 110, 114, 101, 99, 111, 118, 101, 114, 97, 98, 108, 101, 32,
      101, 114, 114, 111, 114, 46>>

Message ==
    UNION {[1..n -> Alphabet] : n \in 0..MaxMsgLen} \cup {DefaultMessage}

\* the kinds E a call names: the default one and two of the standard library
ErrorKind == {"gtpo::bad_topology_error", "std::runtime_error", "std::logic_error"}

\* std::string::c_str() read as a C string: the characters before the first NUL
RECURSIVE c_str(_)
c_str(str) ==
    IF str = <<>> \/ Head(str) = 0 THEN <<>>
    ELSE <<Head(str)>> \o c_str(Tail(str))

\* E( what_arg ): std::runtime_error and std::logic_error keep a copy of
\* what_arg, and bad_topology_error hands its argument to std::runtime_error
Construct(E, what_arg) == [kind |-> E, what_arg |-> what_arg]

\* bad_topology_error(): the constructor without argument
bad_topology_error == Construct("gtpo::bad_topology_error", DefaultMessage)

\* what(): the C string of the stored copy
what(e) == c_str(e.what_arg)

\* the test turned round: if ( expr ) throw E( message )
assert_throw_inverted(E, expr, message) ==
    IF expr THEN Construct(E, message) ELSE NoError

\* throw E() in place of throw E( message )
assert_throw_no_message(E, expr, message) ==
    IF ~expr THEN Construct(E, DefaultMessage) ELSE NoError

\* assert_throw<E>( expr, message ): the error thrown, or NoError on return
assert_throw(E, expr, message) ==
    IF ~expr THEN Construct(E, message) ELSE NoError

\* the caller calls assert_throw<E>( expr, message )
CallAssertThrow(E, expr, message) ==
    /\ exc = NoError
    /\ nerr < MaxErrors
    /\ call' = [form |-> "message", E |-> E, expr |-> expr, message |-> message]
    /\ exc' = assert_throw(E, expr, message)
    /\ nerr' = IF assert_throw(E, expr, message) = NoError THEN nerr ELSE nerr + 1
    /\ UNCHANGED <<weakVars, contVars>>

\* the caller calls assert_throw<E>( expr ): message is std::string{ "" }
CallAssertThrowDefault(E, expr) ==
    /\ exc = NoError
    /\ nerr < MaxErrors
    /\ call' = [form |-> "default", E |-> E, expr |-> expr, message |-> <<>>]
    /\ exc' = assert_throw(E, expr, <<>>)
    /\ nerr' = IF assert_throw(E, expr, <<>>) = NoError THEN nerr ELSE nerr + 1
    /\ UNCHANGED <<weakVars, contVars>>

\* the caller's handler takes the exception
CallerCatch ==
    /\ exc # NoError
    /\ exc' = NoError
    /\ call' = NoCall
    /\ UNCHANGED <<nerr, weakVars, contVars>>

WeakIdle ==
    /\ ctrl = [b \in CtrlAddr |-> FreeBlock]
    /\ wp = [k \in WeakSlot |-> NullHandle]
    /\ went = [k \in WeakSlot |-> 0]
    /\ ret = NoRet

InitAssert == AssertIdle /\ WeakIdle /\ ContIdle

NextAssert ==
    \/ \E E \in ErrorKind, expr \in BOOLEAN, message \in Message :
          CallAssertThrow(E, expr, message)
    \/ \E E \in ErrorKind, expr \in BOOLEAN : CallAssertThrowDefault(E, expr)
    \/ CallerCatch

SpecAssert == InitAssert /\ [][NextAssert]_vars

\* C5: assert_throw( false ) without message and without E raises a
\* bad_topology_error whose what() is the default text.
C5_DefaultDiagnostic ==
    (call.form = "default" /\ ~call.expr /\ call.E = "gtpo::bad_topology_error") =>
        /\ exc # NoError
        /\ exc.kind = bad_topology_error.kind
        /\ what(exc) = what(bad_topology_error)

\* C6 as claimed: assert_throw<E>( false, msg ) raises an E whose what() is msg
\* exactly.
C6_DiagnosticIsMessage ==
    (call.form = "message" /\ ~call.expr) =>
        /\ exc # NoError
        /\ exc.kind = call.E
        /\ what(exc) = call.message

\* C6: assert_throw<E>( false, msg ) always raises, the error reaching the
\* caller is the E made from msg, and its what() is msg up to msg's first NUL:
\* msg itself when msg holds no NUL.
C6_DiagnosticIsCString ==
    (call.form = "message" /\ ~call.expr) =>
        /\ exc # NoError
        /\ exc.kind = call.E
        /\ exc.what_arg = call.message
        /\ what(exc) = c_str(call.message)
        /\ (\A i \in 1..Len(call.message) : call.message[i] # 0) =>
              what(exc) = call.message

\* a message of two characters, none of them NUL, has reached the caller
C6_Witness ==
    /\ call.form = "message" /\ ~call.expr
    /\ Len(call.message) = 2 /\ \A i \in 1..2 : call.message[i] # 0
    /\ exc # NoError /\ what(exc) = call.message

\* C7: assert_throw<E>( true, msg ) returns: nothing is thrown, no error value
\* is constructed and nothing else changes.
C7_TrueNeverRaises ==
    [][(call' # call /\ call'.form # "none" /\ call'.expr) =>
          /\ exc' = NoError /\ exc' = exc
          /\ nerr' = nerr
          /\ UNCHANGED <<weakVars, contVars>>]_vars

\* a call with expr true and the empty message, after an earlier call threw
C7_Witness ==
    /\ call.form = "message" /\ call.expr /\ call.message = <<>>
    /\ exc = NoError /\ nerr > 0

\* ----------------------------------------------------------- SpecContainer
MaxLen   == 3   \* longest container
MaxValue == 3   \* values 1..MaxValue

Value == 1..MaxValue

\* ContainerConfig::insert<Sequence>::into( c, v ), specialised as an append
insert_into(c, v) == Append(c, v)

\* a removal of every element equal to v
remove_all_from(c, v) == SelectSeq(c, LAMBDA x : x # v)

\* ContainerConfig::remove<Sequence>::from( c, v ), specialised as the removal
\* of the first element equal to v: a scan from the front
RECURSIVE remove_from(_, _)
remove_from(c, v) ==
    IF c = <<>> THEN <<>>
    ELSE IF Head(c) = v THEN Tail(c)
    ELSE <<Head(c)>> \o remove_from(Tail(c), v)

Contains(c, v) == \E i \in 1..Len(c) : c[i] = v

\* the caller inserts v into its container w
Insert(w, v) ==
    /\ Len(cont[w]) < MaxLen
    /\ cont' = [cont EXCEPT ![w] = insert_into(cont[w], v)]
    /\ last' = [op |-> "insert", which |-> w, v |-> v, found |-> FALSE]
    /\ UNCHANGED <<weakVars, assertVars>>

\* the caller removes v from its container w
Remove(w, v) ==
    /\ cont' = [cont EXCEPT ![w] = remove_from(cont[w], v)]
    /\ last' = [op |-> "remove", which |-> w, v |-> v, found |-> Contains(cont[w], v)]
    /\ UNCHANGED <<weakVars, assertVars>>

InitContainer == ContIdle /\ WeakIdle /\ AssertIdle

NextContainer ==
    \/ \E w \in Container, v \in Value : Insert(w, v)
    \/ \E w \in Container, v \in Value : Remove(w, v)

SpecContainer == InitContainer /\ [][NextContainer]_vars

Count(c, v) == Cardinality({i \in 1..Len(c) : c[i] = v})

\* C8: a removal of v from a sequence that holds v deletes the first v and
\* nothing else, the other elements keeping their order, and changes nothing
\* but the container it was given.
C8_RemoveFirstMatch ==
    [][(last'.op = "remove" /\ last'.found) =>
          LET w      == last'.which
              v      == last'.v
              before == cont[w]
              after  == cont'[w]
          IN  /\ \E i \in 1..Len(before) :
                    /\ before[i] = v
                    /\ \A j \in 1..(i - 1) : before[j] # v
                    /\ after = SubSeq(before, 1, i - 1) \o SubSeq(before, i + 1, Len(before))
              /\ Count(after, v) = Count(before, v) - 1
              /\ \A o \in Container \ {w} : cont'[o] = cont[o]
              /\ UNCHANGED <<weakVars, assertVars>>]_vars

\* 2 has been removed from the container 1, 2, 3 were inserted into, while the
\* other container holds elements of its own
C8_Witness ==
    /\ last = [op |-> "remove", which |-> "c", v |-> 2, found |-> TRUE]
    /\ cont["c"] = <<1, 3>>
    /\ cont["other"] # <<>>

====
